---- MODULE Spec2Model ----
(***************************************************************************)
(* Model of Node/src/dialogs/Prompts.ts (Bot Builder SDK): the             *)
(* SimplePromptRecognizer and the Prompts dialog (begin / replyReceived /  *)
(* formatPrompt).  Utterances are sequences of one-character strings so    *)
(* that trimming, case folding and prefix matching are computed, not       *)
(* assumed.                                                                *)
(***************************************************************************)
EXTENDS Integers, Sequences, FiniteSets, TLC

(***************************************************************************)
(* Bounds of the model.                                                    *)
(***************************************************************************)
\* largest maxRetries value a prompt is begun with
MaxRetriesBound == 2

(***************************************************************************)
(* Enumerations (Prompts.ts 41-43, Dialog.ResumeReason).                   *)
(***************************************************************************)
PromptType == {"text", "number", "confirm", "choice", "time"}

ListStyle == {"none", "inline", "list", "button", "auto"}

ResumeReason == {"completed", "notCompleted", "canceled"}

(***************************************************************************)
(* Character-level helpers: String.prototype.trim and the /i flag.         *)
(***************************************************************************)
RECURSIVE trimLeft(_)
trimLeft(s) ==
    IF s # <<>> /\ Head(s) = " " THEN trimLeft(Tail(s)) ELSE s

RECURSIVE trimRight(_)
trimRight(s) ==
    IF s # <<>> /\ s[Len(s)] = " " THEN trimRight(SubSeq(s, 1, Len(s) - 1)) ELSE s

trim(s) == trimRight(trimLeft(s))

UpperToLower ==
    [c \in {"A", "B", "C", "D", "E", "F", "G", "H", "I", "J", "K", "L", "M", "N", "O", "P", "Q", "R", "S", "T", "U", "V", "W", "X", "Y", "Z"} |->
        CASE c = "A" -> "a"
          [] c = "B" -> "b"
          [] c = "C" -> "c"
          [] c = "D" -> "d"
          [] c = "E" -> "e"
          [] c = "F" -> "f"
          [] c = "G" -> "g"
          [] c = "H" -> "h"
          [] c = "I" -> "i"
          [] c = "J" -> "j"
          [] c = "K" -> "k"
          [] c = "L" -> "l"
          [] c = "M" -> "m"
          [] c = "N" -> "n"
          [] c = "O" -> "o"
          [] c = "P" -> "p"
          [] c = "Q" -> "q"
          [] c = "R" -> "r"
          [] c = "S" -> "s"
          [] c = "T" -> "t"
          [] c = "U" -> "u"
          [] c = "V" -> "v"
          [] c = "W" -> "w"
          [] c = "X" -> "x"
          [] c = "Y" -> "y"
          [] c = "Z" -> "z"]

toLowerCase(s) ==
    [i \in 1..Len(s) |-> IF s[i] \in DOMAIN UpperToLower THEN UpperToLower[s[i]] ELSE s[i]]

startsWith(s, p) == Len(s) >= Len(p) /\ SubSeq(s, 1, Len(p)) = p

(***************************************************************************)
(* SimplePromptRecognizer.cancelExp                                        *)
(*   /^(cancel|nevermind|never mind|back|stop|forget it)/i                 *)
(***************************************************************************)
cancelPhrases ==
    { <<"c", "a", "n", "c", "e", "l">>,
      <<"n", "e", "v", "e", "r", "m", "i", "n", "d">>,
      <<"n", "e", "v", "e", "r", " ", "m", "i", "n", "d">>,
      <<"b", "a", "c", "k">>,
      <<"s", "t", "o", "p">>,
      <<"f", "o", "r", "g", "e", "t", " ", "i", "t">> }

cancelExpTest(s) == \E p \in cancelPhrases : startsWith(toLowerCase(s), p)

(***************************************************************************)
(* Scores are rationals [num, den] with den > 0, so that the length ratios *)
(* of lines 114 and 128 are kept exactly.                                  *)
(***************************************************************************)
Ratio(n, d) == [num |-> n, den |-> d]

ScoreZero == Ratio(0, 1)

ScorePositive(sc) == sc.num > 0

(***************************************************************************)
(* EntityRecognizer collaborators (Node/src/dialogs/EntityRecognizer.ts is *)
(* not part of the sources; modelled from the interface section of the     *)
(* specification).                                                         *)
(***************************************************************************)
Digits == {"0", "1", "2", "3", "4", "5", "6", "7", "8", "9"}

DigitValue ==
    [c \in Digits |->
        CASE c = "0" -> 0 [] c = "1" -> 1 [] c = "2" -> 2 [] c = "3" -> 3 [] c = "4" -> 4
          [] c = "5" -> 5 [] c = "6" -> 6 [] c = "7" -> 7 [] c = "8" -> 8 [] c = "9" -> 9]

\* length of the longest run of digits of s starting at position i
RECURSIVE digitRun(_, _)
digitRun(s, i) ==
    IF i <= Len(s) /\ s[i] \in Digits THEN 1 + digitRun(s, i + 1) ELSE 0

\* the numeric token starting at position i (empty if none starts there):
\* digits, an optional point, digits; or a point followed by digits
numberTokenAt(s, i) ==
    LET d1 == digitRun(s, i) IN
    IF d1 > 0
    THEN IF i + d1 <= Len(s) /\ s[i + d1] = "."
         THEN SubSeq(s, i, i + d1 + digitRun(s, i + d1 + 1))
         ELSE SubSeq(s, i, i + d1 - 1)
    ELSE IF i <= Len(s) /\ s[i] = "." /\ digitRun(s, i + 1) > 0
         THEN SubSeq(s, i, i + digitRun(s, i + 1))
         ELSE <<>>

\* the leftmost numeric token of s (empty if s holds none)
numberToken(s) ==
    IF \E i \in 1..Len(s) : numberTokenAt(s, i) # <<>>
    THEN numberTokenAt(s, CHOOSE i \in 1..Len(s) :
                            /\ numberTokenAt(s, i) # <<>>
                            /\ \A j \in 1..(i - 1) : numberTokenAt(s, j) = <<>>)
    ELSE <<>>

RECURSIVE stripLeadingZeros(_)
stripLeadingZeros(s) ==
    IF Len(s) > 1 /\ Head(s) = "0" THEN stripLeadingZeros(Tail(s)) ELSE s

RECURSIVE stripTrailingZeros(_)
stripTrailingZeros(s) ==
    IF s # <<>> /\ s[Len(s)] = "0" THEN stripTrailingZeros(SubSeq(s, 1, Len(s) - 1)) ELSE s

\* Number(token): integer part without leading zeros, fraction without
\* trailing zeros
tokenToNumber(t) ==
    LET d1 == digitRun(t, 1)
        ipart == IF d1 = 0 THEN <<"0">> ELSE stripLeadingZeros(SubSeq(t, 1, d1))
        fpart == IF d1 < Len(t) THEN stripTrailingZeros(SubSeq(t, d1 + 2, Len(t))) ELSE <<>>
    IN [ip |-> ipart, fp |-> fpart]

\* parse-number(text): <<>> stands for NaN, <<n>> for the number n
tokenValue(t) == IF t = <<>> THEN <<>> ELSE <<tokenToNumber(t)>>

parseNumber(text) == tokenValue(numberToken(trim(text)))

\* Number.prototype.toString for the numbers above
numberToString(n) == IF n.fp = <<>> THEN n.ip ELSE n.ip \o <<".">> \o n.fp

RECURSIVE digitsToNat(_)
digitsToNat(s) ==
    IF s = <<>> THEN 0 ELSE 10 * digitsToNat(SubSeq(s, 1, Len(s) - 1)) + DigitValue[s[Len(s)]]

numberIsPositive(n) == n.ip # <<"0">> \/ n.fp # <<>>

numberAtMost(n, k) == digitsToNat(n.ip) < k \/ (digitsToNat(n.ip) = k /\ n.fp = <<>>)

numberIsInteger(n) == n.fp = <<>>

DigitChar == [v \in 0..9 |-> CHOOSE c \in Digits : DigitValue[c] = v]

RECURSIVE natToDigits(_)
natToDigits(k) == IF k < 10 THEN <<DigitChar[k]>> ELSE natToDigits(k \div 10) \o <<DigitChar[k % 10]>>

natToNumber(k) == [ip |-> natToDigits(k), fp |-> <<>>]

\* parse-boolean(text): <<>> stands for undefined
\* (booleanToken: the verdict on the trimmed, case-folded text)
booleanToken(t) ==
    IF t \in { <<"y", "e", "s">>, <<"y">>, <<"t", "r", "u", "e">> } THEN <<TRUE>>
    ELSE IF t \in { <<"n", "o">>, <<"n">>, <<"f", "a", "l", "s", "e">> } THEN <<FALSE>>
    ELSE <<>>

parseBoolean(text) == booleanToken(toLowerCase(trim(text)))

\* best-fuzzy-match(candidates, text): <<>> stands for no match
matchAt(enumValues, i) ==
    <<[index |-> natToNumber(i - 1), entity |-> <<enumValues[i]>>, score |-> Ratio(1, 1)]>>

firstMatch(enumValues, hits) ==
    IF hits = {} THEN <<>> ELSE matchAt(enumValues, CHOOSE h \in hits : \A g \in hits : h <= g)

findBestMatch(enumValues, text) ==
    firstMatch(enumValues,
               { i \in 1..Len(enumValues) : toLowerCase(enumValues[i]) = toLowerCase(trim(text)) })

\* recognize-date-time(text, refDate): the length of the recognised span is
\* chosen by the environment (span = 0: no entity)
recognizeTime(text, span) ==
    IF span = 0 THEN <<>> ELSE <<[entity |-> SubSeq(text, 1, span), type |-> "chrono.duration"]>>

(***************************************************************************)
(* SimplePromptRecognizer.recognize, the body of the try block up to the   *)
(* call of compareConfidence (lines 99-146).  ext is what the environment  *)
(* contributes to the turn: ext.entityThrows (the EntityRecognizer call    *)
(* raises) and ext.timeSpan (the span recognizeTime matches).              *)
(* The result is [threw, score, response]; response is <<>> when the       *)
(* variable is left undefined.                                             *)
(***************************************************************************)
Interpreted(sc, resp) == [threw |-> FALSE, score |-> sc, response |-> resp]

InterpreterThrew == [threw |-> TRUE, score |-> ScoreZero, response |-> <<>>]

\* fault injection: free text is not recognised
interpretTextUnrecognised(text) == Interpreted(ScoreZero, <<>>)

\* lines 108-109
interpretText(text) == Interpreted(Ratio(1, 10), <<text>>)

\* lines 112-116; n is the value of parseNumber(text)
numberResult(n, text) ==
    IF n # <<>>
    THEN Interpreted(Ratio(Len(numberToString(n[1])), Len(text)), <<n[1]>>)
    ELSE Interpreted(ScoreZero, <<>>)

interpretNumber(text) == numberResult(parseNumber(text), text)

\* lines 119-123; b is the value of parseBoolean(text)
confirmResult(b) ==
    IF b # <<>> THEN Interpreted(Ratio(1, 1), <<b[1]>>) ELSE Interpreted(ScoreZero, <<>>)

interpretConfirm(text) == confirmResult(parseBoolean(text))

\* lines 126-130; entity is the value of recognizeTime(text, refDate)
timeResult(entity, text) ==
    IF entity # <<>>
    THEN Interpreted(Ratio(Len(entity[1].entity), Len(text)), <<entity[1]>>)
    ELSE Interpreted(ScoreZero, <<>>)

interpretTime(text, span) == timeResult(recognizeTime(text, span), text)

\* lines 135-138: the ordinal fallback; n is the value of parseNumber(text)
ordinalMatch(enumValues, n) ==
    IF n # <<>> /\ numberIsPositive(n[1]) /\ numberAtMost(n[1], Len(enumValues))
    THEN <<[index |-> n[1],
            entity |-> IF numberIsInteger(n[1]) THEN <<enumValues[digitsToNat(n[1].ip)]>> ELSE <<>>,
            score |-> Ratio(1, 1)]>>
    ELSE <<>>

choiceOrdinal(enumValues, text) == ordinalMatch(enumValues, parseNumber(text))

\* lines 134-139; found is the value of findBestMatch(enumValues, text)
bestOrOrdinal(found, enumValues, text) ==
    IF found = <<>> THEN choiceOrdinal(enumValues, text) ELSE found

\* lines 140-143
choiceResult(best) ==
    IF best # <<>> THEN Interpreted(best[1].score, <<best[1]>>) ELSE Interpreted(ScoreZero, <<>>)

interpretChoice(enumValues, text) ==
    choiceResult(bestOrOrdinal(findBestMatch(enumValues, text), enumValues, text))

interpret(args, text, ext) ==
    CASE args.promptType = "text" -> interpretText(text)
      [] args.promptType = "number" ->
            IF ext.entityThrows THEN InterpreterThrew ELSE interpretNumber(text)
      [] args.promptType = "confirm" ->
            IF ext.entityThrows THEN InterpreterThrew ELSE interpretConfirm(text)
      [] args.promptType = "time" ->
            IF ext.entityThrows THEN InterpreterThrew
            ELSE interpretTime(text, IF ext.timeSpan <= Len(text) THEN ext.timeSpan ELSE Len(text))
      [] args.promptType = "choice" ->
            IF ext.entityThrows THEN InterpreterThrew
            ELSE interpretChoice(args.enumValues, text)

(***************************************************************************)
(* Prompts.options.defaultRetryPrompt (line 174)                           *)
(***************************************************************************)
defaultRetryPrompt == <<"I", " ", "d", "i", "d", "n", "'", "t", " ", "u", "n", "d", "e", "r", "s", "t", "a", "n", "d", ".">>

(***************************************************************************)
(* Prompt content: string | string[] | IMessage, as a tagged record        *)
(*   [type |-> "string", text], [type |-> "array", items],                 *)
(*   [type |-> "message", message].                                        *)
(* Message.randomPrompt picks one element; pick is the random draw.        *)
(***************************************************************************)
randomPrompt(items, pick) == [type |-> "string", text |-> items[(pick % Len(items)) + 1]]

resolveArray(prompt, pick) ==
    IF prompt.type = "array" THEN randomPrompt(prompt.items, pick) ELSE prompt

\* truthiness of args.retryPrompt on line 221
hasRetryPrompt(args) ==
    /\ "retryPrompt" \in DOMAIN args
    /\ ~(args.retryPrompt.type = "string" /\ args.retryPrompt.text = <<>>)

\* fault injection: a retry ignores retryPrompt and always apologises
retryBaseIgnoresRetryPrompt(args, prompt, retry, pick) ==
    IF retry /\ prompt.type = "string"
    THEN [type |-> "string", text |-> defaultRetryPrompt \o <<" ">> \o prompt.text]
    ELSE prompt

\* lines 216-229: the base prompt
retryBase(args, prompt, retry, pick) ==
    IF retry
    THEN IF hasRetryPrompt(args) THEN resolveArray(args.retryPrompt, pick)
         ELSE IF prompt.type = "string"
              THEN [type |-> "string", text |-> defaultRetryPrompt \o <<" ">> \o prompt.text]
              ELSE prompt
    ELSE prompt

basePrompt(args, retry, pick) == retryBase(args, resolveArray(args.prompt, pick), retry, pick)

\* fault injection: buttons only when the candidates are fewer than the capacity
effectiveStyleStrictCapacity(args, maxBtns) ==
    IF "listStyle" \notin DOMAIN args THEN "none"
    ELSE IF args.listStyle = "auto"
    THEN IF maxBtns > 0 /\ Len(args.enumValues) < maxBtns THEN "button"
         ELSE IF Len(args.enumValues) < 4 THEN "inline"
         ELSE "list"
    ELSE args.listStyle

\* lines 236-246: the list style to render
effectiveStyle(args, maxBtns) ==
    IF "listStyle" \notin DOMAIN args THEN "none"
    ELSE IF args.listStyle = "auto"
    THEN IF maxBtns > 0 /\ Len(args.enumValues) <= maxBtns THEN "button"
         ELSE IF Len(args.enumValues) < 4 THEN "inline"
         ELSE "list"
    ELSE args.listStyle

\* lines 252-256: one action per candidate
buttonActions(enumValues) ==
    [i \in 1..Len(enumValues) |-> [title |-> enumValues[i], message |-> enumValues[i]]]

\* fault injection: the connector before the last item is always ", or "
inlineConnectorAlwaysComma(index, n) ==
    IF index = n - 2 THEN <<",", " ", "o", "r", " ">> ELSE <<",", " ">>

\* lines 261-269: the connector in force after the item at (0-based) index
inlineConnector(index, n) ==
    IF index = n - 2 THEN (IF index = 0 THEN <<" ", "o", "r", " ">> ELSE <<",", " ", "o", "r", " ">>) ELSE <<",", " ">>

RECURSIVE inlineItems(_, _)
inlineItems(enumValues, k) ==
    IF k = 0 THEN <<>>
    ELSE inlineItems(enumValues, k - 1)
            \o (IF k = 1 THEN <<>> ELSE inlineConnector(k - 2, Len(enumValues)))
            \o natToDigits(k) \o <<".", " ">> \o enumValues[k]

inlineList(enumValues) == <<" ">> \o inlineItems(enumValues, Len(enumValues))

\* lines 273-277
RECURSIVE listItems(_, _)
listItems(enumValues, k) ==
    IF k = 0 THEN <<>>
    ELSE listItems(enumValues, k - 1)
            \o (IF k = 1 THEN <<>> ELSE <<"\n", " ", " ", " ">>)
            \o natToDigits(k) \o <<".", " ">> \o enumValues[k]

listList(enumValues) == <<"\n", " ", " ", " ">> \o listItems(enumValues, Len(enumValues))

PlainMessage(text) == [text |-> text, attachments |-> <<>>]

\* lines 214-293.  session carries what formatPrompt reads from it:
\* session.maxButtons (Channel.maxButtons) and session.dialogData.
\* lines 250-283: the switch on the style
renderChoice(session, args, prompt, style) ==
    CASE style = "button" ->
            [text |-> prompt.text,
             attachments |-> << [actions |-> buttonActions(session.dialogData.enumValues)] >>]
      [] style = "inline" -> PlainMessage(prompt.text \o inlineList(args.enumValues))
      [] style = "list" -> PlainMessage(prompt.text \o listList(args.enumValues))
      [] OTHER -> PlainMessage(prompt.text)

\* lines 232-292; prompt is the base prompt of lines 216-229
renderPrompt(session, args, prompt) ==
    IF prompt.type = "string"
    THEN IF args.promptType = "choice"
         THEN renderChoice(session, args, prompt, effectiveStyle(args, session.maxButtons))
         ELSE PlainMessage(prompt.text)
    ELSE prompt.message

formatPrompt(session, args, retry, pick) ==
    renderPrompt(session, args, basePrompt(args, retry, pick))

(***************************************************************************)
(* State.                                                                  *)
(*   phase       "idle" before begin, "waiting" for a reply, "arbitrating" *)
(*               while compareConfidence has not answered yet, "ended"     *)
(*               once session.endDialog was called                         *)
(*   dialogData  session.dialogData (<<>> before begin)                    *)
(*   maxButtons  Channel.maxButtons(session)                               *)
(*   sent        arguments of session.send, in order, each with the retry  *)
(*               flag formatPrompt was called with                         *)
(*   results     arguments of session.endDialog, in order                  *)
(*   turn        what happened in the turn of the last reply: the          *)
(*               utterance, the interpreter's verdict, every invocation of *)
(*               the recognizer's callback, the exception that left        *)
(*               recognize (raised) or the asynchronous answer             *)
(*               (asyncRaised), and the arbiter's answer                   *)
(*   pending     the interpretation awaiting the arbiter's answer          *)
(*   beginArgs   the arguments begin was called with (history)             *)
(*   missRun     history: the number of replies answered so far if each of *)
(*               them was unclaimed, no cancellation, raised no error and  *)
(*               scored 0; -1 once some reply was not                      *)
(***************************************************************************)
VARIABLES phase, dialogData, maxButtons, sent, results, turn, pending, beginArgs, missRun

vars == <<phase, dialogData, maxButtons, sent, results, turn, pending, beginArgs, missRun>>

(***************************************************************************)
(* Inputs.                                                                 *)
(***************************************************************************)
Utterances ==
    { <<"c", "a", "n", "c", "e", "l">>, <<" ", "S", "T", "O", "P", " ">>, <<"b", "a", "c", "k">>, <<"n", "e", "v", "e", "r", "m", "i", "n", "d">>, <<"n", "e", "v", "e", "r", " ", "m", "i", "n", "d">>, <<"F", "o", "r", "g", "e", "t", " ", "i", "t">>,
      <<"f", "o", "r", "g", "e", "t">>, <<"4", "2">>, <<"y", "e", "s">>, <<"2">>, <<"g", "r", "e", "e", "n">>, <<"h", "m">>, <<"g", "o", " ", "b", "a", "c", "k">>, <<>> }

StringPrompt == [type |-> "string", text |-> <<"P", "i", "c", "k">>]

ArrayPrompt == [type |-> "array", items |-> << <<"H", "i">>, <<"Y", "o">> >>]

MessagePrompt ==
    [type |-> "message",
     message |-> [text |-> <<"c", "a", "r", "d">>, attachments |-> << [contentType |-> "image/png"] >>]]

RetryStringPrompt == [type |-> "string", text |-> <<"A", "g", "a", "i", "n">>]

Colors == << <<"R", "e", "d">>, <<"G", "r", "e", "e", "n">>, <<"B", "l", "u", "e">> >>

\* IPromptArgs without maxRetries
BaseArgs ==
    { [promptType |-> "text", prompt |-> StringPrompt],
      [promptType |-> "number", prompt |-> StringPrompt, retryPrompt |-> RetryStringPrompt],
      [promptType |-> "confirm", prompt |-> ArrayPrompt],
      [promptType |-> "time", prompt |-> MessagePrompt],
      [promptType |-> "choice", prompt |-> StringPrompt, enumValues |-> Colors, listStyle |-> "auto"],
      [promptType |-> "choice", prompt |-> StringPrompt, enumValues |-> <<>>, listStyle |-> "auto"] }

withField(r, k, v) == [x \in DOMAIN r \cup {k} |-> IF x = k THEN v ELSE r[x]]

\* IPromptArgs: maxRetries absent or an integer in 0..MaxRetriesBound
PromptArgs ==
    BaseArgs \cup { withField(a, "maxRetries", m) : a \in BaseArgs, m \in 0..MaxRetriesBound }

ButtonCapacities == {0, 5}

(***************************************************************************)
(* Prompts.begin (lines 177-186).                                          *)
(***************************************************************************)
\* line 179: args.maxRetries = args.maxRetries || 1
beginMaxRetries(args) ==
    IF "maxRetries" \in DOMAIN args /\ args.maxRetries # 0 THEN args.maxRetries ELSE 1

\* lines 179-184: the dialog data after the copy
beginData(args) == withField(args, "maxRetries", beginMaxRetries(args))

(***************************************************************************)
(* IPromptRecognizerResult values built by the recognizer.                 *)
(***************************************************************************)
\* line 166
CanceledResult(promptType) == [resumed |-> "canceled", promptType |-> promptType]

\* line 151
CompletedResult(promptType, response) ==
    [resumed |-> "completed", promptType |-> promptType, response |-> response]

\* line 153
NotCompletedResult(promptType, handled) ==
    [resumed |-> "notCompleted", promptType |-> promptType, handled |-> handled]

\* line 157: err names what was thrown ("interpreter", "arbiter", "send",
\* "endDialog")
ErrorResult(promptType, err) ==
    [resumed |-> "notCompleted", promptType |-> promptType, error |-> [wrapped |-> err]]

\* fault injection: an unclaimed reply completes whatever its score
compareResultIgnoresScore(promptType, handled, score, response) ==
    IF ~handled
    THEN CompletedResult(promptType, response)
    ELSE NotCompletedResult(promptType, handled)

\* fault injection: a positive score completes even when the reply was claimed
compareResultIgnoresClaim(promptType, handled, score, response) ==
    IF ScorePositive(score)
    THEN CompletedResult(promptType, response)
    ELSE NotCompletedResult(promptType, handled)

\* lines 149-155: the callback handed to compareConfidence
compareResult(promptType, handled, score, response) ==
    IF ~handled /\ ScorePositive(score)
    THEN CompletedResult(promptType, response)
    ELSE NotCompletedResult(promptType, handled)

isHandled(result) == "handled" \in DOMAIN result /\ result.handled

hasError(result) == "error" \in DOMAIN result

(***************************************************************************)
(* Prompts.replyReceived, the callback handed to recognize (lines 200-211).*)
(* st is the session: [dialogData, maxButtons, sent, results].             *)
(* fault names the calls that raise in this turn: session.send /           *)
(* formatPrompt ("send"), session.endDialog after it has popped the dialog *)
(* and resumed the caller ("endDialog").                                   *)
(***************************************************************************)
sendThrows(fault) == fault = "send"

endDialogThrows(fault) == fault = "endDialog"

\* fault injection: the retry test off by one (ends with one retry left)
shouldEndOffByOne(result, args) ==
    \/ hasError(result)
    \/ result.resumed = "completed"
    \/ result.resumed = "canceled"
    \/ args.maxRetries <= 1

\* fault injection: a cancellation is not treated as terminal
shouldEndIgnoresCanceled(result, args) ==
    \/ hasError(result)
    \/ result.resumed = "completed"
    \/ args.maxRetries = 0

\* lines 202-203
shouldEnd(result, args) ==
    \/ hasError(result)
    \/ result.resumed = "completed"
    \/ result.resumed = "canceled"
    \/ args.maxRetries = 0

\* fault injection: ending the dialog also consumes a retry
endDialogConsumesRetry(st, result, fault) ==
    [st |-> [st EXCEPT !.results = Append(@, withField(result, "promptType", st.dialogData.promptType)),
                       !.dialogData.maxRetries = @ - 1],
     threw |-> IF endDialogThrows(fault) THEN "endDialog" ELSE "none"]

\* lines 204-205
endDialog(st, result, fault) ==
    [st |-> [st EXCEPT !.results = Append(@, withField(result, "promptType", st.dialogData.promptType))],
     threw |-> IF endDialogThrows(fault) THEN "endDialog" ELSE "none"]

\* lines 207-208
\* line 208; st already holds the decremented counter
sendRetry(st, fault, pick) ==
    IF sendThrows(fault)
    THEN [st |-> st, threw |-> "send"]
    ELSE [st |-> [st EXCEPT !.sent =
                    Append(@, [message |-> formatPrompt(st, st.dialogData, TRUE, pick), retry |-> TRUE])],
          threw |-> "none"]

retryPrompt(st, fault, pick) ==
    sendRetry([st EXCEPT !.dialogData.maxRetries = @ - 1], fault, pick)

\* lines 200-211
replyCallback(st, result, fault, pick) ==
    IF ~isHandled(result)
    THEN IF shouldEnd(result, st.dialogData)
         THEN endDialog(st, result, fault)
         ELSE retryPrompt(st, fault, pick)
    ELSE [st |-> st, threw |-> "none"]

(***************************************************************************)
(* One invocation of the callback, with the record kept of it in turn.     *)
(***************************************************************************)
CallbackEntry(st, result, r) ==
    [result |-> result,
     retriesBefore |-> st.dialogData.maxRetries,
     retriesAfter |-> r.st.dialogData.maxRetries,
     endCalls |-> Len(r.st.results) - Len(st.results),
     sendCalls |-> Len(r.st.sent) - Len(st.sent),
     threw |-> r.threw]

called(run, result, r) ==
    [run EXCEPT !.st = r.st,
                !.callbacks = Append(@, CallbackEntry(run.st, result, r)),
                !.raised = r.threw]

invoke(run, result, fault, pick) ==
    called(run, result, replyCallback(run.st, result, fault, pick))

(***************************************************************************)
(* SimplePromptRecognizer.recognize and checkCanceled (lines 95-168), for  *)
(* the arguments replyReceived builds on lines 191-199.                    *)
(* arb is the behaviour of session.compareConfidence in this turn:         *)
(*   "claims" / "declines"  answers handled = true / false before it       *)
(*                          returns                                        *)
(*   "throws"               raises without answering                       *)
(*   "async"                returns and answers later                      *)
(* A run is [st, callbacks, raised, interp, interpreterCalls,              *)
(* arbiterCalls, answer, pending]; raised names the exception in flight    *)
(* ("none" if there is none), interp is the interpreter's outcome, answer  *)
(* is what the arbiter answered.                                           *)
(***************************************************************************)
NewRun(st) ==
    [st |-> st, callbacks |-> <<>>, raised |-> "none", interp |-> <<>>,
     interpreterCalls |-> 0, arbiterCalls |-> 0, answer |-> "none", pending |-> <<>>]

\* lines 156-158: the catch block; err names the exception caught
catch(run, err, fault, pick) ==
    invoke(run, ErrorResult(run.st.dialogData.promptType, err), fault, pick)

\* the try block is left by an exception of the callback (run.raised), or not
caught(run, fault, pick) ==
    IF run.raised # "none" THEN catch(run, run.raised, fault, pick) ELSE run

\* lines 149-155: compareConfidence is called inside the try block; run
\* already counts the call
compare(run, i, arb, fault, pick) ==
    CASE arb = "async" -> [run EXCEPT !.pending = <<i>>]
      [] arb = "throws" -> catch(run, "arbiter", fault, pick)
      [] OTHER ->
           caught(invoke([run EXCEPT !.answer = IF arb = "claims" THEN "claimed" ELSE "declined"],
                         compareResult(run.st.dialogData.promptType, arb = "claims", i.score, i.response),
                         fault, pick),
                  fault, pick)

\* fault injection: the arbiter is skipped when the score is 0
arbitrateSkipsZero(run, i, arb, fault, pick) ==
    IF i.score.num = 0
    THEN caught(invoke(run, NotCompletedResult(run.st.dialogData.promptType, FALSE), fault, pick),
                fault, pick)
    ELSE compare([run EXCEPT !.arbiterCalls = @ + 1], i, arb, fault, pick)

arbitrate(run, i, arb, fault, pick) ==
    compare([run EXCEPT !.arbiterCalls = @ + 1], i, arb, fault, pick)

\* fault injection: no catch block, the interpreter's exception leaves recognize
interpretedNoCatch(run, i, arb, fault, pick) ==
    IF i.threw
    THEN [run EXCEPT !.interp = <<i>>, !.raised = "interpreter"]
    ELSE arbitrate([run EXCEPT !.interp = <<i>>], i, arb, fault, pick)

\* lines 97-158; i is the outcome of lines 99-146
interpreted(run, i, arb, fault, pick) ==
    IF i.threw
    THEN catch([run EXCEPT !.interp = <<i>>], "interpreter", fault, pick)
    ELSE arbitrate([run EXCEPT !.interp = <<i>>], i, arb, fault, pick)

\* lines 97-158: onContinue
onContinue(run, text, ext, arb, fault, pick) ==
    interpreted([run EXCEPT !.interpreterCalls = @ + 1],
                interpret(run.st.dialogData, text, ext), arb, fault, pick)

\* fault injection: the utterance is tested untrimmed
checkCanceledNoTrim(utterance) == cancelExpTest(utterance)

\* lines 162-168
checkCanceled(utterance) == cancelExpTest(trim(utterance))

\* lines 95-160
recognize(st, utterance, ext, arb, fault, pick) ==
    IF ~checkCanceled(utterance)
    THEN onContinue(NewRun(st), trim(utterance), ext, arb, fault, pick)
    ELSE invoke(NewRun(st), CanceledResult(st.dialogData.promptType), fault, pick)

(***************************************************************************)
(* The state machine.                                                      *)
(***************************************************************************)
Session == [dialogData |-> dialogData, maxButtons |-> maxButtons, sent |-> sent, results |-> results]

NoTurn ==
    [replied |-> FALSE, utterance |-> <<>>, interp |-> <<>>,
     callbacks |-> <<>>, raised |-> "none", asyncRaised |-> "none",
     interpreterCalls |-> 0, arbiterCalls |-> 0, answer |-> "none"]

Init ==
    /\ phase = "idle"
    /\ dialogData = <<>>
    /\ maxButtons = 0
    /\ sent = <<>>
    /\ results = <<>>
    /\ turn = NoTurn
    /\ pending = <<>>
    /\ beginArgs = <<>>
    /\ missRun = 0

\* the random draws that matter for args: Message.randomPrompt is only
\* called for an array
Picks(args) ==
    IF args.prompt.type = "array" \/ ("retryPrompt" \in DOMAIN args /\ args.retryPrompt.type = "array")
    THEN {0, 1} ELSE {0}

\* what the environment can contribute to interpreting a reply
Exts(args, utterance) ==
    IF args.promptType = "text" THEN {[entityThrows |-> FALSE, timeSpan |-> 0]}
    ELSE {[entityThrows |-> TRUE, timeSpan |-> 0], [entityThrows |-> FALSE, timeSpan |-> 0]}
         \cup (IF args.promptType = "time"
               THEN {[entityThrows |-> FALSE, timeSpan |-> k] : k \in {1, Len(trim(utterance))} \ {0}}
               ELSE {})

Arbiters == {"claims", "declines", "throws", "async"}

Faults == {"none", "send", "endDialog"}

\* Environment choices a turn never consults are fixed to one value: the
\* arbiter is not reached after a cancellation or an interpreter exception,
\* and no callback runs (so nothing it calls can raise) before an
\* asynchronous arbiter answers or after the arbiter has claimed the reply.
Consulted(utterance, ext, arb, fault) ==
    /\ (checkCanceled(utterance) => ~ext.entityThrows /\ ext.timeSpan = 0 /\ arb = "declines")
    /\ (ext.entityThrows => arb = "declines")
    /\ (~checkCanceled(utterance) /\ ~ext.entityThrows /\ arb \in {"async", "claims"} => fault = "none")

\* the session right after the copy of lines 180-184
begun(data, capacity) ==
    [dialogData |-> data, maxButtons |-> capacity, sent |-> <<>>, results |-> <<>>]

\* Prompts.begin (lines 177-186)
Begin(args, capacity, pick) ==
    /\ phase = "idle"
    /\ dialogData' = beginData(args)
    /\ sent' = << [message |-> formatPrompt(begun(beginData(args), capacity), beginData(args), FALSE, pick),
                   retry |-> FALSE] >>
    /\ maxButtons' = capacity
    /\ beginArgs' = args
    /\ phase' = "waiting"
    /\ UNCHANGED <<results, turn, pending, missRun>>

phaseAfter(run) ==
    IF Len(run.st.results) > 0 THEN "ended"
    ELSE IF run.pending # <<>> THEN "arbitrating"
    ELSE "waiting"

\* an outcome that is unclaimed, NotCompleted and carries no error
IsMiss(result) ==
    /\ result.resumed = "notCompleted"
    /\ ~("handled" \in DOMAIN result /\ result.handled)
    /\ "error" \notin DOMAIN result

\* the reply of the run scored 0, was not claimed and nothing raised
PlainMiss(run) ==
    /\ run.interp # <<>> /\ ~run.interp[1].threw /\ run.interp[1].score.num = 0
    /\ Len(run.callbacks) = 1
    /\ IsMiss(run.callbacks[1].result)
    /\ run.callbacks[1].threw = "none"

\* the session and the record of the turn after a run of the recognizer
Apply(run, utterance) ==
    /\ missRun' = IF run.pending # <<>> THEN missRun
                  ELSE IF missRun >= 0 /\ PlainMiss(run) THEN missRun + 1
                  ELSE -1
    /\ dialogData' = run.st.dialogData
    /\ sent' = run.st.sent
    /\ results' = run.st.results
    /\ pending' = run.pending
    /\ phase' = phaseAfter(run)
    /\ turn' = [replied |-> TRUE, utterance |-> utterance,
                interp |-> IF run.interp = <<>> THEN <<>>
                           ELSE <<[threw |-> run.interp[1].threw, score |-> run.interp[1].score]>>,
                callbacks |-> run.callbacks,
                raised |-> IF phase = "arbitrating" THEN turn.raised ELSE run.raised,
                asyncRaised |-> IF phase = "arbitrating" THEN run.raised ELSE "none",
                interpreterCalls |-> run.interpreterCalls, arbiterCalls |-> run.arbiterCalls,
                answer |-> run.answer]

\* Prompts.replyReceived (lines 188-212), up to the return of recognize
ReplyReceived(utterance, ext, arb, fault, pick) ==
    /\ phase = "waiting"
    /\ Apply(recognize(Session, utterance, ext, arb, fault, pick), utterance)
    /\ UNCHANGED <<maxButtons, beginArgs>>

\* the run of the recognizer that an asynchronous answer resumes
resumed(handled) ==
    [NewRun(Session) EXCEPT !.interp = pending,
                            !.interpreterCalls = turn.interpreterCalls,
                            !.arbiterCalls = turn.arbiterCalls,
                            !.answer = IF handled THEN "claimed" ELSE "declined"]

\* the answer of an asynchronous compareConfidence: the callback of lines
\* 149-155 runs after recognize has returned, outside its try block
ArbiterAnswer(handled, fault, pick) ==
    /\ phase = "arbitrating"
    /\ Apply(invoke(resumed(handled),
                    compareResult(dialogData.promptType, handled, pending[1].score, pending[1].response),
                    fault, pick),
             turn.utterance)
    /\ UNCHANGED <<maxButtons, beginArgs>>

Next ==
    \/ \E args \in PromptArgs : \E capacity \in ButtonCapacities : \E pick \in Picks(args) :
          /\ (args.promptType # "choice" => capacity = 0)
          /\ Begin(args, capacity, pick)
    \/ \E utterance \in Utterances : \E arb \in Arbiters : \E fault \in Faults :
          /\ phase = "waiting"
          /\ \E ext \in Exts(dialogData, utterance) : \E pick \in Picks(dialogData) :
                /\ Consulted(utterance, ext, arb, fault)
                /\ ReplyReceived(utterance, ext, arb, fault, pick)
    \/ \E handled \in BOOLEAN : \E fault \in Faults :
          /\ phase = "arbitrating"
          /\ \E pick \in Picks(dialogData) : ArbiterAnswer(handled, fault, pick)

Spec == Init /\ [][Next]_vars

TypeOK ==
    /\ phase \in {"idle", "waiting", "arbitrating", "ended"}
    /\ maxButtons \in Nat
    /\ phase # "idle" =>
          /\ dialogData.maxRetries \in 0..MaxRetriesBound
          /\ dialogData.promptType \in PromptType
          /\ "listStyle" \in DOMAIN dialogData => dialogData.listStyle \in ListStyle
    /\ \A k \in 1..Len(results) : results[k].resumed \in ResumeReason
    /\ missRun \in -1..(MaxRetriesBound + 1)

(***************************************************************************)
(* Vocabulary of the properties.                                           *)
(***************************************************************************)
\* the steps that deliver a reply or the arbiter's answer to it
TurnStep == phase \in {"waiting", "arbitrating"}

\* the invocations of the recognizer's callback made by the step
NewCallbacks == turn'.callbacks

RetryMessages(msgs) == {k \in 1..Len(msgs) : msgs[k].retry}

\* C1: Retry budget.  For a prompt begun with maxRetries = N >= 1 and a run
\* of k consecutive replies that are each unclaimed, not a cancellation,
\* raise no error and score 0: after each of the first N replies the
\* remaining retries are N - k and exactly k messages were sent after the
\* initial prompt, each rendered with isRetry = true; reply N + 1 ends the
\* dialog with resume = NotCompleted, no value, no error and no message.
C1_RetryBudget ==
    (phase # "idle" /\ missRun >= 0 /\ "maxRetries" \in DOMAIN beginArgs /\ beginArgs.maxRetries >= 1) =>
        /\ missRun <= beginArgs.maxRetries + 1
        /\ Len(sent) = 1 + (IF missRun <= beginArgs.maxRetries THEN missRun ELSE beginArgs.maxRetries)
        /\ RetryMessages(sent) = 2..Len(sent)
        /\ \A k \in 2..Len(sent) : \E pick \in Picks(dialogData) :
              sent[k].message =
                 formatPrompt(Session, [dialogData EXCEPT !.maxRetries = beginArgs.maxRetries - (k - 1)],
                              TRUE, pick)
        /\ IF missRun <= beginArgs.maxRetries
           THEN /\ phase \in {"waiting", "arbitrating"}
                /\ dialogData.maxRetries = beginArgs.maxRetries - missRun
                /\ results = <<>>
           ELSE /\ phase = "ended"
                /\ dialogData.maxRetries = 0
                /\ Len(results) = 1
                /\ results[1].resumed = "notCompleted"
                /\ DOMAIN results[1] \cap {"response", "error"} = {}

\* C1 witness: a prompt begun with maxRetries = 2 has sent its two retry
\* messages and ended NotCompleted on the third of three replies scoring 0.
C1_Witness ==
    /\ phase = "ended"
    /\ "maxRetries" \in DOMAIN beginArgs /\ beginArgs.maxRetries = 2
    /\ missRun = 3
    /\ Cardinality(RetryMessages(sent)) = 2
    /\ Len(results) = 1 /\ IsMiss(results[1])

\* C2: after begin(spec) the remaining-retries counter equals the configured
\* maxRetries for every configured integer maxRetries >= 0, and 1 when
\* maxRetries is absent.
C2_BeginKeepsMaxRetries ==
    (phase = "waiting" /\ ~turn.replied) =>
        dialogData.maxRetries =
            (IF "maxRetries" \in DOMAIN beginArgs THEN beginArgs.maxRetries ELSE 1)

\* the outcome handed to the callback is one on which the dialog must end
IsTerminal(entry) ==
    \/ entry.result.resumed \in {"completed", "canceled"}
    \/ "error" \in DOMAIN entry.result
    \/ entry.retriesBefore = 0

IsClaimed(result) == "handled" \in DOMAIN result /\ result.handled

\* C3: for every reply whose outcome is not claimed, the dialog ends in that
\* turn if and only if resume is Completed or Canceled, or an error is
\* present, or remaining-retries is 0 when the outcome arrives; in every
\* other unclaimed turn the dialog does not end and stays waiting.
C3_EndsIffTerminal ==
    /\ \A k \in 1..Len(turn.callbacks) :
          ~IsClaimed(turn.callbacks[k].result) =>
             /\ IsTerminal(turn.callbacks[k]) <=> turn.callbacks[k].endCalls = 1
             /\ ~IsTerminal(turn.callbacks[k]) => turn.callbacks[k].endCalls = 0
    /\ (turn.replied /\ phase # "arbitrating") =>
          (phase = "ended" <=>
              \E k \in 1..Len(turn.callbacks) :
                 ~IsClaimed(turn.callbacks[k].result) /\ IsTerminal(turn.callbacks[k]))
    /\ (turn.replied /\ phase # "ended") => (phase \in {"waiting", "arbitrating"} /\ results = <<>>)

\* C3 witness: an unclaimed NotCompleted outcome without error arrived with
\* remaining-retries 0 and ended the dialog, after an earlier one that did
\* not (a retry message was sent).
C3_Witness ==
    /\ phase = "ended"
    /\ Len(turn.callbacks) = 1
    /\ IsMiss(turn.callbacks[1].result)
    /\ turn.callbacks[1].retriesBefore = 0
    /\ Cardinality(RetryMessages(sent)) >= 1

\* an outcome that consumes a retry: unclaimed, NotCompleted, error-free,
\* reached with remaining-retries > 0
ConsumesRetry(entry) == IsMiss(entry.result) /\ entry.retriesBefore > 0

\* C4: between begin and the end of the dialog the remaining-retries
\* counter never increases; it changes, by exactly -1, only in a turn whose
\* outcome is unclaimed, NotCompleted, error-free and reached with
\* remaining-retries > 0, and every other turn leaves it unchanged.
C4_CounterOnlyDecrements ==
    [][TurnStep =>
         LET consuming == {k \in 1..Len(NewCallbacks) : ConsumesRetry(NewCallbacks[k])} IN
         /\ dialogData'.maxRetries <= dialogData.maxRetries
         /\ dialogData'.maxRetries >= 0
         /\ Cardinality(consuming) <= 1
         /\ dialogData'.maxRetries = dialogData.maxRetries - Cardinality(consuming)
         /\ [dialogData' EXCEPT !.maxRetries = 0] = [dialogData EXCEPT !.maxRetries = 0]]_vars

\* C4 witness: a turn has consumed the last retry of a prompt begun with 2.
C4_Witness ==
    /\ phase = "waiting"
    /\ "maxRetries" \in DOMAIN beginArgs /\ beginArgs.maxRetries = 2
    /\ dialogData.maxRetries = 0
    /\ Len(turn.callbacks) = 1 /\ ConsumesRetry(turn.callbacks[1])

\* C5: when the arbiter reports claimed = true for a reply (whatever the
\* score and the remaining retries), the dialog does not end, sends no
\* message in that turn, emits no outcome to the caller and leaves the whole
\* dialog state unchanged.
C5_ClaimedFrame ==
    [][(TurnStep /\ turn'.answer = "claimed") =>
         /\ dialogData' = dialogData
         /\ sent' = sent
         /\ results' = results
         /\ phase' = "waiting"
         /\ Len(turn'.callbacks) = 1
         /\ turn'.callbacks[1].endCalls = 0 /\ turn'.callbacks[1].sendCalls = 0]_vars

\* C5 witness: a reply recognised with a positive score was claimed while
\* no retries remained, and the dialog is still waiting.
C5_Witness ==
    /\ phase = "waiting"
    /\ turn.answer = "claimed"
    /\ turn.interp # <<>> /\ turn.interp[1].score.num > 0
    /\ dialogData.maxRetries = 0
    /\ Len(turn.callbacks) = 1

\* C6 as claimed: the arbitration function is invoked exactly once for every
\* reply passed to recognize.
C6_ArbiterOncePerReply == turn.replied => turn.arbiterCalls = 1

\* the cancellation phrases as the specification lists them
CancelWords ==
    { <<"c", "a", "n", "c", "e", "l">>,
      <<"n", "e", "v", "e", "r", "m", "i", "n", "d">>,
      <<"n", "e", "v", "e", "r", " ", "m", "i", "n", "d">>,
      <<"b", "a", "c", "k">>,
      <<"s", "t", "o", "p">>,
      <<"f", "o", "r", "g", "e", "t", " ", "i", "t">> }

BeginsWith(s, p) == Len(s) >= Len(p) /\ \A k \in 1..Len(p) : s[k] = p[k]

IsCancellation(utterance) ==
    \E p \in CancelWords : BeginsWith(toLowerCase(trim(utterance)), p)

\* C6: the arbitration function is invoked exactly once in every turn whose
\* reply is not a cancellation and whose interpretation raises nothing, the
\* score being 0 or not, and is not invoked in the other turns.
C6_ArbiterOnceUnlessBypassed ==
    turn.replied =>
        turn.arbiterCalls =
            (IF IsCancellation(turn.utterance) \/ (turn.interp # <<>> /\ turn.interp[1].threw)
             THEN 0 ELSE 1)

\* C6 witness: the arbiter was called once on a reply that scored 0.
C6_Witness ==
    /\ turn.replied
    /\ turn.interp # <<>> /\ ~turn.interp[1].threw /\ turn.interp[1].score.num = 0
    /\ turn.arbiterCalls = 1

\* C7: for every promptKind and every remaining-retries value, a reply whose
\* trimmed text begins case-insensitively with a cancellation phrase yields
\* resume = Canceled with no value, without running the interpreter or the
\* arbiter; the dialog ends in that turn, no retry is consumed and no message
\* is sent.
C7_CancelEndsDialog ==
    [][(phase = "waiting" /\ turn'.replied /\ IsCancellation(turn'.utterance)) =>
         /\ Len(turn'.callbacks) = 1
         /\ turn'.callbacks[1].result = [resumed |-> "canceled", promptType |-> dialogData.promptType]
         /\ turn'.interpreterCalls = 0 /\ turn'.interp = <<>>
         /\ turn'.arbiterCalls = 0
         /\ phase' = "ended"
         /\ results' = <<[resumed |-> "canceled", promptType |-> dialogData.promptType]>>
         /\ dialogData' = dialogData
         /\ sent' = sent]_vars

\* C7 witness: a Text prompt with retries left was ended by " STOP ".
C7_Witness ==
    /\ phase = "ended"
    /\ dialogData.promptType = "text"
    /\ dialogData.maxRetries >= 1
    /\ turn.utterance = <<" ", "S", "T", "O", "P", " ">>
    /\ results = <<[resumed |-> "canceled", promptType |-> "text"]>>

\* C8: recognize invokes its callback exactly once per call and never raises
\* to its caller, on every path, an exception raised by the callback itself
\* included.
C8_CallbackOnceNeverRaises ==
    (turn.replied /\ phase # "arbitrating") =>
        (Len(turn.callbacks) = 1 /\ turn.raised = "none")

\* C9: an exception raised while interpreting a reply never escapes the
\* pipeline: it is converted to an outcome carrying the wrapped error, and
\* that outcome ends the dialog in the same turn whatever remaining-retries
\* is, with no retry message sent and no retry consumed.
C9_InterpreterErrorEnds ==
    [][(phase = "waiting" /\ turn'.interp # <<>> /\ turn'.interp[1].threw) =>
         /\ turn'.raised # "interpreter"
         /\ Len(turn'.callbacks) >= 1
         /\ turn'.callbacks[1].result =
               [resumed |-> "notCompleted", promptType |-> dialogData.promptType,
                error |-> [wrapped |-> "interpreter"]]
         /\ turn'.callbacks[1].endCalls = 1
         /\ phase' = "ended"
         /\ results' = <<turn'.callbacks[1].result>>
         /\ sent' = sent
         /\ dialogData' = dialogData]_vars

\* C9 witness: the interpreter raised while two retries remained and the
\* dialog ended with the error.
C9_Witness ==
    /\ phase = "ended"
    /\ turn.interp # <<>> /\ turn.interp[1].threw
    /\ dialogData.maxRetries = 2
    /\ Len(results) = 1 /\ "error" \in DOMAIN results[1]

\* C10: the caller of the dialog receives exactly one terminal
\* RecognitionOutcome, tagged with the prompt's promptKind: at most one is
\* ever emitted per begun dialog, and a dialog that has ended has emitted one.
C10_ExactlyOneOutcome ==
    /\ Len(results) <= 1
    /\ phase = "ended" => Len(results) = 1
    /\ \A k \in 1..Len(results) : results[k].promptType = dialogData.promptType

\* the interpretations of the reply of the turn that the environment allows
\* (the interpreter did not raise)
Interpretations ==
    { interpret(dialogData, trim(turn.utterance), ext) :
        ext \in { e \in Exts(dialogData, turn.utterance) : ~e.entityThrows } }

\* the reply of the turn is no cancellation, its interpretation did not
\* raise, and the turn is over
Interpretable ==
    /\ turn.replied /\ phase # "arbitrating"
    /\ ~IsCancellation(turn.utterance)
    /\ turn.interp # <<>> /\ ~turn.interp[1].threw

\* C11: for a reply that is no cancellation and on which the interpreter did
\* not raise, the outcome is Completed, carrying the interpreted value, if and
\* only if the arbiter reported claimed = false and the score is > 0; if
\* claimed = false and the score is 0 the outcome is NotCompleted with no
\* value, no error and handled not set.  (The outcome is the one the
\* recognizer builds from the arbiter's answer, the first it hands over.)
C11_CompletedIffDeclinedPositive ==
    Interpretable =>
        /\ Len(turn.callbacks) >= 1
        /\ (turn.callbacks[1].result.resumed = "completed") <=>
              (turn.answer = "declined" /\ turn.interp[1].score.num > 0)
        /\ (turn.answer = "declined" /\ turn.interp[1].score.num > 0) =>
              \E i \in Interpretations :
                 /\ i.score = turn.interp[1].score
                 /\ i.response # <<>>
                 /\ turn.callbacks[1].result =
                       [resumed |-> "completed", promptType |-> dialogData.promptType,
                        response |-> i.response]
        /\ (turn.answer = "declined" /\ turn.interp[1].score.num = 0) =>
              /\ turn.callbacks[1].result.resumed = "notCompleted"
              /\ DOMAIN turn.callbacks[1].result \cap {"response", "error"} = {}
              /\ ~IsClaimed(turn.callbacks[1].result)
        /\ (turn.answer # "none" /\ \A k \in 1..Len(turn.callbacks) : turn.callbacks[k].threw = "none") =>
              Len(turn.callbacks) = 1

\* C11 witness: the arbiter declined "2" on the colour prompt and the
\* outcome is Completed with the second label.
C11_Witness ==
    /\ Interpretable
    /\ dialogData.promptType = "choice"
    /\ turn.answer = "declined"
    /\ turn.utterance = <<"2">>
    /\ Len(turn.callbacks) = 1
    /\ turn.callbacks[1].result.resumed = "completed"
    /\ turn.callbacks[1].result.response[1].entity = <<Colors[2]>>

\* C12: a Choice prompt begun with an empty candidate list is rejected at
\* dialog-begin time: begin sends no prompt and the dialog never reaches the
\* waiting-for-reply state.
C12_EmptyChoiceRejected ==
    (phase # "idle" /\ beginArgs.promptType = "choice" /\ beginArgs.enumValues = <<>>) =>
        (sent = <<>> /\ phase \notin {"waiting", "arbitrating"})

(***************************************************************************)
(* Rendering.  FormatSpec runs the same dialog over a wide range of prompt *)
(* configurations (every shape of prompt and retry prompt, candidate lists *)
(* of 0 to 5 labels, every list style, several button capacities) with     *)
(* replies that the prompt does not recognise, so that formatPrompt        *)
(* renders the initial prompt (line 185) and the retry prompts (line 208)  *)
(* of each configuration.                                                  *)
(***************************************************************************)
RetryArrayPrompt == [type |-> "array", items |-> << <<"O", "o", "p", "s">>, <<"E", "h">> >>]

RetryMessagePrompt ==
    [type |-> "message",
     message |-> [text |-> <<"r", "e", "d", "o">>, attachments |-> << [contentType |-> "image/gif"] >>]]

EmptyStringPrompt == [type |-> "string", text |-> <<>>]

Palette ==
    << <<"R", "e", "d">>, <<"G", "r", "e", "e", "n">>, <<"B", "l", "u", "e">>,
       <<"C", "y", "a", "n">>, <<"P", "i", "n", "k">> >>

\* args.enumValues: the first n labels of the palette, n = 0..5
FormatChoices == { SubSeq(Palette, 1, n) : n \in 0..Len(Palette) }

FormatPrompts == {StringPrompt, ArrayPrompt, MessagePrompt}

FormatRetryPrompts == {RetryStringPrompt, RetryArrayPrompt, RetryMessagePrompt, EmptyStringPrompt}

\* IPromptArgs without retryPrompt
FormatBaseArgs ==
    { [promptType |-> "number", prompt |-> p] : p \in FormatPrompts }
      \cup { [promptType |-> "choice", prompt |-> p, enumValues |-> c, listStyle |-> l] :
                p \in FormatPrompts, c \in FormatChoices, l \in ListStyle }

FormatArgs ==
    FormatBaseArgs \cup { withField(a, "retryPrompt", r) : a \in FormatBaseArgs, r \in FormatRetryPrompts }

FormatCapacities == {0, 2, 3, 5}

\* a reply no prompt of FormatArgs recognises, in a turn where nothing raises
\* and the arbiter declines
Unrecognised == <<"h", "m">>

NothingRecognised == [entityThrows |-> FALSE, timeSpan |-> 0]

FormatNext ==
    \/ \E args \in FormatArgs : \E capacity \in FormatCapacities : \E pick \in Picks(args) :
          /\ (args.promptType # "choice" => capacity = 0)
          /\ Begin(args, capacity, pick)
    \/ /\ phase = "waiting"
       /\ \E pick \in Picks(dialogData) :
             ReplyReceived(Unrecognised, NothingRecognised, "declines", "none", pick)

FormatSpec == Init /\ [][FormatNext]_vars

(***************************************************************************)
(* Vocabulary of the rendering properties, in the words of the             *)
(* specification.                                                          *)
(***************************************************************************)
\* the contents a prompt configuration can resolve to: a plain text (one per
\* variant of a variant set) or an already-composed rich message
ContentsOf(content) ==
    CASE content.type = "string" -> {[kind |-> "text", text |-> content.text]}
      [] content.type = "array" ->
            {[kind |-> "text", text |-> content.items[i]] : i \in 1..Len(content.items)}
      [] content.type = "message" -> {[kind |-> "rich", message |-> content.message]}

\* dedicated retry content is present (an empty text is none)
RetryPresent(args) ==
    /\ "retryPrompt" \in DOMAIN args
    /\ ~(args.retryPrompt.type = "string" /\ args.retryPrompt.text = <<>>)

Apologised(c) ==
    IF c.kind = "text"
    THEN [kind |-> "text", text |-> defaultRetryPrompt \o <<" ">> \o c.text]
    ELSE c

\* the contents render(spec, isRetry) may choose
ChosenContents(args, isRetry) ==
    IF ~isRetry THEN ContentsOf(args.prompt)
    ELSE IF RetryPresent(args) THEN ContentsOf(args.retryPrompt)
    ELSE { Apologised(c) : c \in ContentsOf(args.prompt) }

\* the k-th numbered entry of an enumeration
Entry(labels, k) == natToDigits(k) \o <<".", " ">> \o labels[k]

\* the separator before item k >= 2 of n
Separator(n, k) ==
    IF k < n THEN <<",", " ">>
    ELSE IF n = 2 THEN <<" ", "o", "r", " ">>
    ELSE <<",", " ", "o", "r", " ">>

RECURSIVE Enumeration(_, _)
Enumeration(labels, k) ==
    IF k = 0 THEN <<>>
    ELSE IF k = 1 THEN Entry(labels, 1)
    ELSE Enumeration(labels, k - 1) \o Separator(Len(labels), k) \o Entry(labels, k)

\* the lines of a text
RECURSIVE Lines(_)
Lines(text) ==
    IF \E i \in 1..Len(text) : text[i] = "\n"
    THEN LET i == CHOOSE j \in 1..Len(text) : text[j] = "\n" /\ \A h \in 1..(j - 1) : text[h] # "\n"
         IN <<SubSeq(text, 1, i - 1)>> \o Lines(SubSeq(text, i + 1, Len(text)))
    ELSE <<text>>

RECURSIVE NonBlank(_)
NonBlank(lines) ==
    IF lines = <<>> THEN <<>>
    ELSE (IF trim(Head(lines)) = <<>> THEN <<>> ELSE <<trim(Head(lines))>>) \o NonBlank(Tail(lines))

IsButtons(m, base, labels) ==
    /\ m.text = base
    /\ Len(m.attachments) = 1
    /\ Len(m.attachments[1].actions) = Len(labels)
    /\ \A i \in 1..Len(labels) :
          m.attachments[1].actions[i] = [title |-> labels[i], message |-> labels[i]]

IsInline(m, base, labels) ==
    /\ m.attachments = <<>>
    /\ m.text = base \o <<" ">> \o Enumeration(labels, Len(labels))

IsList(m, base, labels) ==
    /\ m.attachments = <<>>
    /\ startsWith(m.text, base)
    /\ NonBlank(Lines(SubSeq(m.text, Len(base) + 1, Len(m.text)))) =
          [k \in 1..Len(labels) |-> Entry(labels, k)]
    /\ Len(Lines(m.text)) >= 1 + Len(labels)

IsPlain(m, base) == m = [text |-> base, attachments |-> <<>>]

RenderedAs(m, style, base, labels) ==
    CASE style = "button" -> IsButtons(m, base, labels)
      [] style = "inline" -> IsInline(m, base, labels)
      [] style = "list" -> IsList(m, base, labels)
      [] OTHER -> IsPlain(m, base)

\* the effective style for presentation style, capacity B and C candidates
ExpectedStyle(style, B, C) ==
    IF style = "auto"
    THEN IF B > 0 /\ C <= B THEN "button"
         ELSE IF C < 4 THEN "inline"
         ELSE "list"
    ELSE style

TextContents(args, isRetry) == { c \in ChosenContents(args, isRetry) : c.kind = "text" }

\* C13: for a Choice prompt with a text prompt and list presentation Auto,
\* channel capacity B and C candidates, the effective style is Buttons when
\* B > 0 and C <= B (exactly C actions, one per candidate in order),
\* otherwise Inline when C < 4, otherwise List (C numbered entries, one per
\* line); a configured style other than Auto is used as given, whatever the
\* capacity.
C13_EffectiveListStyle ==
    \A k \in 1..Len(sent) :
        (dialogData.promptType = "choice" /\ TextContents(dialogData, sent[k].retry) # {}) =>
            \E c \in TextContents(dialogData, sent[k].retry) :
                RenderedAs(sent[k].message,
                           ExpectedStyle(dialogData.listStyle, maxButtons, Len(dialogData.enumValues)),
                           c.text, dialogData.enumValues)

\* C13 witness: five candidates on a channel of capacity 3, style Auto: the
\* prompt and its retry were sent as numbered lists.
C13_Witness ==
    /\ Len(sent) = 2
    /\ dialogData.promptType = "choice" /\ dialogData.listStyle = "auto"
    /\ dialogData.prompt = StringPrompt
    /\ Len(dialogData.enumValues) = 5 /\ maxButtons = 3
    /\ Len(Lines(sent[1].message.text)) = 6
    /\ Len(Lines(sent[2].message.text)) = 6

\* C14: inline rendering of a candidate list of any length n >= 1 appends a
\* single-line enumeration numbered 1..n in candidate order, the items
\* separated by ", " except that the separator before the final item is
\* " or " when n = 2 and ", or " when n >= 3, with no connector when n = 1;
\* [Red, Green, Blue] renders "1. Red, 2. Green, or 3. Blue".
C14_InlineEnumeration ==
    \A k \in 1..Len(sent) :
        ( /\ dialogData.promptType = "choice"
          /\ Len(dialogData.enumValues) >= 1
          /\ TextContents(dialogData, sent[k].retry) # {}
          /\ \/ dialogData.listStyle = "inline"
             \/ /\ dialogData.listStyle = "auto"
                /\ ~(maxButtons > 0 /\ Len(dialogData.enumValues) <= maxButtons)
                /\ Len(dialogData.enumValues) < 4 ) =>
            /\ \E c \in TextContents(dialogData, sent[k].retry) :
                  /\ sent[k].message.text =
                        c.text \o <<" ">> \o Enumeration(dialogData.enumValues, Len(dialogData.enumValues))
                  /\ dialogData.enumValues = Colors =>
                        sent[k].message.text = c.text \o <<" ">> \o
                            <<"1", ".", " ", "R", "e", "d", ",", " ", "2", ".", " ", "G", "r", "e", "e", "n", ",", " ", "o", "r", " ", "3", ".", " ", "B", "l", "u", "e">>
            /\ \A i \in 1..Len(sent[k].message.text) : sent[k].message.text[i] # "\n"
            /\ sent[k].message.attachments = <<>>

\* C14 witness: [Red, Green, Blue] was rendered inline after "Pick".
C14_Witness ==
    /\ Len(sent) >= 1
    /\ dialogData.promptType = "choice" /\ dialogData.listStyle = "inline"
    /\ dialogData.enumValues = Colors
    /\ sent[1].message.text =
          <<"P", "i", "c", "k", " ", "1", ".", " ", "R", "e", "d", ",", " ", "2", ".", " ", "G", "r", "e", "e", "n", ",", " ", "o", "r", " ", "3", ".", " ", "B", "l", "u", "e">>

\* C15: render(spec, isRetry) uses the primary prompt when isRetry = false;
\* when isRetry = true it uses the dedicated retry content if present,
\* otherwise the primary prompt with the default apology phrase prepended
\* when it is plain text; a chosen content that is an already-composed rich
\* message is returned unmodified (no apology, no list decoration).
C15_ContentSelection ==
    \A k \in 1..Len(sent) :
        \E c \in ChosenContents(dialogData, sent[k].retry) :
            IF c.kind = "rich" THEN sent[k].message = c.message
            ELSE IF dialogData.promptType = "choice"
                 THEN /\ startsWith(sent[k].message.text, c.text)
                      /\ \A j \in 1..Len(sent[k].message.attachments) :
                            DOMAIN sent[k].message.attachments[j] = {"actions"}
                 ELSE IsPlain(sent[k].message, c.text)

\* C15 witness: the retry of a Number prompt without retry content was sent
\* as the apology phrase followed by the primary text.
C15_Witness ==
    /\ Len(sent) = 2 /\ sent[2].retry
    /\ dialogData.promptType = "number"
    /\ dialogData.prompt = StringPrompt
    /\ "retryPrompt" \notin DOMAIN dialogData
    /\ sent[2].message.text = defaultRetryPrompt \o <<" ">> \o StringPrompt.text

(***************************************************************************)
(* Interpretation.  InterpretSpec runs the same dialog, with the same      *)
(* environment as Spec, for one prompt of each type begun without          *)
(* maxRetries and a wider range of replies: ordinals in and out of range,  *)
(* decimals, leading zeros, numbers inside a sentence, labels in any case, *)
(* surrounding blanks.                                                     *)
(***************************************************************************)
InterpretUtterances ==
    { <<"2">>,
      <<" ", "2", " ">>,
      <<"0">>,
      <<"4">>,
      <<"0", ".", "5">>,
      <<"2", ".", "5">>,
      <<".", "5">>,
      <<"0", "0", "7">>,
      <<"1", ".", "5", "0">>,
      <<"n", "o", " ", "2">>,
      <<"g", "r", "e", "e", "n">>,
      <<"G", "R", "E", "E", "N", " ">>,
      <<"B", "l", "u", "e">>,
      <<" ", "h", "m", " ">>,
      <<"y", "e", "s">>,
      <<"N">>,
      <<"s", "t", "o", "p", " ", "i", "t">>,
      <<>> }

InterpretArgs ==
    { [promptType |-> "text", prompt |-> StringPrompt],
      [promptType |-> "number", prompt |-> StringPrompt],
      [promptType |-> "confirm", prompt |-> StringPrompt],
      [promptType |-> "time", prompt |-> StringPrompt],
      [promptType |-> "choice", prompt |-> StringPrompt, enumValues |-> Colors, listStyle |-> "none"] }

InterpretNext ==
    \/ \E args \in InterpretArgs : \E pick \in Picks(args) : Begin(args, 0, pick)
    \/ \E utterance \in InterpretUtterances : \E arb \in Arbiters : \E fault \in Faults :
          /\ phase = "waiting"
          /\ \E ext \in Exts(dialogData, utterance) : \E pick \in Picks(dialogData) :
                /\ Consulted(utterance, ext, arb, fault)
                /\ ReplyReceived(utterance, ext, arb, fault, pick)
    \/ \E handled \in BOOLEAN : \E fault \in Faults :
          /\ phase = "arbitrating"
          /\ \E pick \in Picks(dialogData) : ArbiterAnswer(handled, fault, pick)

InterpretSpec == Init /\ [][InterpretNext]_vars

\* 1 <= n <= count, for a number n = [ip, fp]
InOrdinalRange(n, count) ==
    /\ digitsToNat(n.ip) >= 1
    /\ digitsToNat(n.ip) < count \/ (digitsToNat(n.ip) = count /\ n.fp = <<>>)

\* C16: for a Choice reply on which the fuzzy best-match finds nothing: if
\* the utterance parses as a number n with 1 <= n <= candidate count, the
\* result has score 1.0, index n and label equal to the n-th candidate;
\* if n is outside that range or the utterance is not a number, the score is
\* 0 and no value is produced.  When the fuzzy match finds a candidate, the
\* result is that match (the ordinal fallback is not consulted).
C16_OrdinalFallback ==
    (Interpretable /\ dialogData.promptType = "choice" /\ turn.answer = "declined") =>
        LET text == trim(turn.utterance)
            labels == dialogData.enumValues
            found == findBestMatch(labels, text)
            n == parseNumber(text)
            out == turn.callbacks[1].result
        IN IF found # <<>>
           THEN out.resumed = "completed" /\ out.response = found
           ELSE IF n # <<>> /\ InOrdinalRange(n[1], Len(labels))
           THEN /\ turn.interp[1].score = Ratio(1, 1)
                /\ out.resumed = "completed"
                /\ out.response[1].index = n[1]
                /\ \E k \in 1..Len(labels) :
                      n[1] = natToNumber(k) /\ out.response[1].entity = <<labels[k]>>
           ELSE /\ turn.interp[1].score.num = 0
                /\ "response" \notin DOMAIN out

\* C17: the score the interpreter hands to the arbiter is within [0, 1] for
\* every promptKind and every utterance; for Number it is (length of the
\* parsed numeric token) / (length of the trimmed utterance), also when the
\* number's canonical text differs in length from the token (leading zeros,
\* a leading decimal point).
C17_ScoreWithinUnit ==
    (turn.replied /\ turn.interp # <<>> /\ ~turn.interp[1].threw) =>
        /\ turn.interp[1].score.den > 0
        /\ 0 <= turn.interp[1].score.num
        /\ turn.interp[1].score.num <= turn.interp[1].score.den
        /\ (dialogData.promptType = "number" /\ numberToken(trim(turn.utterance)) # <<>>) =>
              turn.interp[1].score.num * Len(trim(turn.utterance)) =
                  Len(numberToken(trim(turn.utterance))) * turn.interp[1].score.den

\* C18 as claimed: a Text prompt is always recognised with score 0.1 and
\* the trimmed utterance as its value; a Text prompt dialog never sends a
\* retry message and never ends NotCompleted: every unclaimed reply ends it
\* on that turn.
C18_TextNeverNotCompleted ==
    (phase # "idle" /\ dialogData.promptType = "text") =>
        /\ turn.interp # <<>> => turn.interp[1] = [threw |-> FALSE, score |-> Ratio(1, 10)]
        /\ \A k \in 1..Len(results) :
              results[k].resumed = "completed" => results[k].response = <<trim(turn.utterance)>>
        /\ RetryMessages(sent) = {}
        /\ (turn.replied /\ phase # "arbitrating" /\ turn.answer # "claimed") => phase = "ended"
        /\ \A k \in 1..Len(results) : results[k].resumed # "notCompleted"

\* C18: a Text prompt is always recognised with score 0.1 and the trimmed
\* utterance as its value; a Text prompt dialog never sends a retry message
\* and never consumes a retry, and every unclaimed reply ends it on that
\* turn: Completed with the trimmed utterance, Canceled for a cancellation
\* phrase, and NotCompleted only with the wrapped error of an exception
\* raised by the arbiter or by the callback, never for want of recognition.
C18_TextEndsEveryTurn ==
    (phase # "idle" /\ dialogData.promptType = "text") =>
        /\ turn.interp # <<>> => turn.interp[1] = [threw |-> FALSE, score |-> Ratio(1, 10)]
        /\ \A k \in 1..Len(results) :
              results[k].resumed = "completed" => results[k].response = <<trim(turn.utterance)>>
        /\ RetryMessages(sent) = {} /\ Len(sent) = 1
        /\ dialogData = beginData(beginArgs)
        /\ (turn.replied /\ phase # "arbitrating" /\ turn.answer # "claimed") => phase = "ended"
        /\ (phase = "ended" /\ ~IsCancellation(turn.utterance) /\ turn.arbiterCalls = 1 /\ turn.answer = "declined") =>
              results[1] = [resumed |-> "completed", promptType |-> "text",
                            response |-> <<trim(turn.utterance)>>]
        /\ \A k \in 1..Len(results) :
              results[k].resumed = "notCompleted" =>
                 /\ "error" \in DOMAIN results[k]
                 /\ results[k].error.wrapped \in {"arbiter", "endDialog"}

\* C18 witness: the reply " hm " to a Text prompt was declined by the arbiter
\* and ended the dialog Completed with "hm".
C18_Witness ==
    /\ phase = "ended"
    /\ dialogData.promptType = "text"
    /\ turn.utterance = <<" ", "h", "m", " ">>
    /\ turn.answer = "declined"
    /\ results = <<[resumed |-> "completed", promptType |-> "text", response |-> <<<<"h", "m">>>>]>>

\* the budget of the dialog: the configured maxRetries, 1 if there is none
Budget == IF "maxRetries" \in DOMAIN beginArgs THEN beginArgs.maxRetries ELSE 1

\* C19: conservation of the retry budget.  For a dialog begun with an
\* integer maxRetries >= 0 or none, in every reachable state (retry messages
\* sent so far) + (remaining retries) equals the normalized initial budget
\* and remaining retries >= 0; the dialog sends at most 1 + budget messages,
\* exactly one of which, the first, is rendered with isRetry = false, and no
\* message is sent in the turn that ends the dialog.
C19_BudgetConservation ==
    phase # "idle" =>
        /\ Cardinality(RetryMessages(sent)) + dialogData.maxRetries = Budget
        /\ dialogData.maxRetries >= 0
        /\ Len(sent) <= 1 + Budget
        /\ Len(sent) >= 1 /\ ~sent[1].retry
        /\ RetryMessages(sent) = 2..Len(sent)
        /\ phase = "ended" => \A k \in 1..Len(turn.callbacks) : turn.callbacks[k].sendCalls = 0

====
